---------------------------- MODULE Spec2Model ----------------------------
(***************************************************************************)
(* State machine of the ESP32 ambient cove lighting firmware:              *)
(* state.cpp (initState, updateStateFromPacket, advanceRenderPhase),       *)
(* renderer.cpp (renderFrame), modes.cpp (renderMode1..5) and              *)
(* network.cpp (receivePacket), configured by config.h.                    *)
(*                                                                         *)
(* Numbers.  uint8_t values are integers in 0..255, unsigned long is 32    *)
(* bits wide (ESP32) and wraps modulo 2^32.  float values are modelled as  *)
(* exact rationals [n, d] in lowest terms; the times handed to             *)
(* advanceRenderPhase are counted in milliseconds (dt_s = ms / 1000).      *)
(* The pixel buffer leds[] is not modelled (its values go through sinf);   *)
(* the model keeps which effect wrote it and the strip brightness.         *)
(***************************************************************************)
EXTENDS Integers, Sequences, FiniteSets, TLC

VARIABLES cfg, targetState, renderState, haveFrame, lastFrameId, lastFrameMs,
          stableDirection, dirStableCount, rxPacket, rxReturn, fastled,
          locals, obs

core == <<targetState, renderState, haveFrame, lastFrameId, lastFrameMs,
          stableDirection, dirStableCount>>

vars == <<cfg, targetState, renderState, haveFrame, lastFrameId, lastFrameMs,
          stableDirection, dirStableCount, rxPacket, rxReturn, fastled,
          locals, obs>>

(***************************************************************************)
(* Arithmetic helpers                                                      *)
(***************************************************************************)
Min(a, b) == IF a <= b THEN a ELSE b

Max(a, b) == IF a >= b THEN a ELSE b

Abs(a) == IF a < 0 THEN -a ELSE a

U8(x) == x % 256

\* unsigned long is 32 bits wide: a value is kept as its two 16-bit halves,
\* hi * 65536 + lo
HALF_MOD == 65536

ULong(hi, lo) == [hi |-> hi, lo |-> lo]

\* a - b modulo 2^32
ULongSub(a, b) ==
  LET borrow == IF a.lo < b.lo THEN 1 ELSE 0
  IN  ULong((a.hi - b.hi - borrow) % HALF_MOD, (a.lo - b.lo) % HALF_MOD)

\* an unsigned long as a number, if it is at most limit, else limit + 1
ULongUpTo(x, limit) == IF x.hi = 0 /\ x.lo <= limit THEN x.lo ELSE limit + 1

RECURSIVE GCD(_, _)
GCD(a, b) == IF b = 0 THEN a ELSE GCD(b, a % b)

\* the rational n/d (d /= 0) in lowest terms with a positive denominator
Rat(n, d) ==
  LET s == IF d < 0 THEN -1 ELSE 1
      g == GCD(Abs(n), Abs(d))
  IN  [n |-> (s * n) \div g, d |-> (s * d) \div g]

FromInt(i) == [n |-> i, d |-> 1]

RAdd(x, y) == Rat(x.n * y.d + y.n * x.d, x.d * y.d)

RSub(x, y) == Rat(x.n * y.d - y.n * x.d, x.d * y.d)

RMul(x, y) == Rat(x.n * y.n, x.d * y.d)

RLess(x, y) == x.n * y.d < y.n * x.d

RLeq(x, y) == x.n * y.d <= y.n * x.d

RMin(x, y) == IF RLeq(x, y) THEN x ELSE y

RMax(x, y) == IF RLeq(x, y) THEN y ELSE x

\* (uint8_t) conversion of a float in [0, 255]: truncation toward zero
TruncU8(x) == x.n \div x.d

(***************************************************************************)
(* config.h                                                                *)
(***************************************************************************)
PACKET_SIZE == 12

\* the macros as config.h sets them; STRICT_PACKET_BRIGHTNESS and
\* FORCE_MAX_BRIGHTNESS are defined nowhere, so #if reads them as 0, and
\* BRIGHTNESS_GAIN (used when STRICT_PACKET_BRIGHTNESS is 0) comes from the
\* build: it is kept in percent.
DefaultConfig ==
  [ BRIGHTNESS_CAP |-> 255, MOTION_SPEED_CAP |-> 255,
    FALLBACK_MODE |-> 4, FALLBACK_R |-> 255, FALLBACK_G |-> 180,
    FALLBACK_B |-> 80, FALLBACK_BRIGHTNESS |-> 255,
    MAX_R |-> 255, MAX_G |-> 255, MAX_B |-> 255,
    PACKET_BRIGHTNESS_ZERO_IS_NOHINT |-> 1,
    FORCE_MAX_BRIGHTNESS |-> 0, STRICT_PACKET_BRIGHTNESS |-> 0,
    BRIGHTNESS_GAIN |-> 100 ]

(***************************************************************************)
(* state.h                                                                 *)
(***************************************************************************)
MkPacket(mode, r, g, b, brightness, energy, speed, direction, frame) ==
  [ mode |-> mode, r |-> r, g |-> g, b |-> b, brightness |-> brightness,
    motion_energy |-> energy, motion_speed |-> speed,
    motion_direction |-> direction, frame_id |-> frame ]

\* a Packet object before anything is stored in it
ZeroPacket == MkPacket(0, 0, 0, 0, 0, 0, 0, 0, 0)

(***************************************************************************)
(* state.cpp: initState                                                    *)
(***************************************************************************)
InitTargetState(c) ==
  [ mode |-> U8(c.FALLBACK_MODE), r |-> U8(c.FALLBACK_R),
    g |-> U8(c.FALLBACK_G), b |-> U8(c.FALLBACK_B),
    brightness |-> U8(c.FALLBACK_BRIGHTNESS),
    motion_energy |-> 0, motion_speed |-> 0, motion_direction |-> 128 ]

InitRenderState(c) ==
  [ render_color |-> [r |-> c.FALLBACK_R, g |-> c.FALLBACK_G, b |-> c.FALLBACK_B],
    render_brightness |-> c.FALLBACK_BRIGHTNESS,
    render_motion_energy |-> FromInt(0),
    render_phase |-> FromInt(0) ]

(***************************************************************************)
(* state.cpp: updateStateFromPacket, step by step                          *)
(***************************************************************************)
\* Hysteresis that commits a differing reading at once
HysteresisImmediate(stable, count, direction) ==
  IF direction = 0
    THEN [stable |-> stable, count |-> count]
    ELSE IF direction /= stable
      THEN [stable |-> direction, count |-> 0]
      ELSE [stable |-> stable, count |-> 0]

\* Hysteresis that counts the reading 0 like any other reading
HysteresisCountsZero(stable, count, direction) ==
  IF direction /= stable
    THEN IF U8(count + 1) >= 3
           THEN [stable |-> direction, count |-> 0]
           ELSE [stable |-> stable, count |-> U8(count + 1)]
    ELSE [stable |-> stable, count |-> 0]

\* direction hysteresis (lines 41-51): the new stableDirection and
\* dirStableCount
Hysteresis(stable, count, direction) ==
  IF direction = 0
    THEN [stable |-> stable, count |-> count]
    ELSE IF direction /= stable
      THEN IF U8(count + 1) >= 3
             THEN [stable |-> direction, count |-> 0]
             ELSE [stable |-> stable, count |-> U8(count + 1)]
      ELSE [stable |-> stable, count |-> 0]

\* FrameGap with the gap taken as a signed difference (no uint8_t cast)
FrameGapSignedGap(have, prevFrame, frame_id) ==
  IF have /\ frame_id /= U8(prevFrame + 1)
    THEN [resetPhase |-> TRUE, skipPhaseAdvance |-> frame_id - prevFrame > 5]
    ELSE [resetPhase |-> FALSE, skipPhaseAdvance |-> FALSE]

\* FrameGap whose expected frame is prevFrame + 1 without the uint8_t wrap
FrameGapNoWrap(have, prevFrame, frame_id) ==
  IF have /\ frame_id /= prevFrame + 1
    THEN [resetPhase |-> TRUE, skipPhaseAdvance |-> U8(frame_id - prevFrame) > 5]
    ELSE [resetPhase |-> FALSE, skipPhaseAdvance |-> FALSE]

\* frame sequencing (lines 54-66): the locals resetPhase and skipPhaseAdvance
FrameGap(have, prevFrame, frame_id) ==
  IF have /\ frame_id /= U8(prevFrame + 1)
    THEN [resetPhase |-> TRUE, skipPhaseAdvance |-> U8(frame_id - prevFrame) > 5]
    ELSE [resetPhase |-> FALSE, skipPhaseAdvance |-> FALSE]

\* a is numerically below b
ULongLess(a, b) == a.hi < b.hi \/ (a.hi = b.hi /\ a.lo < b.lo)

\* Interval with the elapsed time taken as a signed difference: a timestamp
\* below the last one gives a negative value, which the floor turns into 5
IntervalSigned(have, lastMs, nowMs, gap) ==
  LET raw     == IF have
                   THEN IF ULongLess(nowMs, lastMs)
                          THEN 0
                          ELSE ULongUpTo(ULongSub(nowMs, lastMs), 120)
                   ELSE 40
      floored == IF raw < 5 THEN 5 ELSE raw
      over    == floored > 120
      capped  == IF over THEN 0 ELSE floored
  IN  [ dt_ms |-> IF gap.skipPhaseAdvance THEN 0 ELSE capped,
        resetPhase |-> gap.resetPhase \/ over ]

\* interval estimation (lines 68-71): the locals dt_ms and resetPhase
Interval(have, lastMs, nowMs, gap) ==
  LET raw     == IF have THEN ULongUpTo(ULongSub(nowMs, lastMs), 120) ELSE 40
      floored == IF raw < 5 THEN 5 ELSE raw
      over    == floored > 120
      capped  == IF over THEN 0 ELSE floored
  IN  [ dt_ms |-> IF gap.skipPhaseAdvance THEN 0 ELSE capped,
        resetPhase |-> gap.resetPhase \/ over ]

\* ClampU8 that stores the value as it comes
ClampU8None(value, cap) == value

\* std::min(value, static_cast<uint8_t>(cap)) (lines 79-81, 87, 90, 95)
ClampU8(value, cap) == Min(value, U8(cap))

\* TargetBrightness that keeps the previous brightness on a zero hint in the
\* off mode too
TargetBrightnessAnyMode(c, previous, packet) ==
  LET hinted == IF c.PACKET_BRIGHTNESS_ZERO_IS_NOHINT /= 0 /\ packet.brightness = 0
                  THEN previous
                  ELSE ClampU8(packet.brightness, c.BRIGHTNESS_CAP)
  IN  IF c.FORCE_MAX_BRIGHTNESS /= 0 /\ packet.mode = c.FALLBACK_MODE
        THEN 255
        ELSE hinted

\* the brightness policy (lines 83-102)
TargetBrightness(c, previous, packet) ==
  LET hinted == IF c.PACKET_BRIGHTNESS_ZERO_IS_NOHINT /= 0
                     /\ packet.brightness = 0 /\ packet.mode /= 5
                  THEN previous
                  ELSE ClampU8(packet.brightness, c.BRIGHTNESS_CAP)
  IN  IF c.FORCE_MAX_BRIGHTNESS /= 0 /\ packet.mode = c.FALLBACK_MODE
        THEN 255
        ELSE hinted

\* the target state after the update (lines 78-102)
ApplyTarget(c, target, packet, stable) ==
  [ mode |-> packet.mode,
    r |-> ClampU8(packet.r, c.MAX_R),
    g |-> ClampU8(packet.g, c.MAX_G),
    b |-> ClampU8(packet.b, c.MAX_B),
    brightness |-> TargetBrightness(c, target.brightness, packet),
    motion_energy |-> packet.motion_energy,
    motion_speed |-> ClampU8(packet.motion_speed, c.MOTION_SPEED_CAP),
    motion_direction |-> stable ]

\* std::min(1.0f, dt_ms / 10.0f) (line 109)
MotionAlpha(dt_ms) == RMin(FromInt(1), Rat(dt_ms, 10))

\* SmoothEnergy without the floor of lines 111-113
SmoothEnergyNoFloor(energy, target_energy, dt_ms) ==
  RAdd(energy, RMul(MotionAlpha(dt_ms), RSub(FromInt(target_energy), energy)))

\* motion smoothing and floor (lines 110-113)
SmoothEnergy(energy, target_energy, dt_ms) ==
  LET blended == RAdd(energy, RMul(MotionAlpha(dt_ms),
                                   RSub(FromInt(target_energy), energy)))
  IN  IF RLess(blended, FromInt(1)) /\ target_energy > 0
        THEN FromInt(1)
        ELSE blended

\* ApplyRender with the brightness smoothed toward the target (half way per
\* update) instead of copied
ApplyRenderSmoothed(render, target, dt_ms, resetPhase) ==
  [ render_color |-> [r |-> target.r, g |-> target.g, b |-> target.b],
    render_brightness |-> (render.render_brightness + target.brightness) \div 2,
    render_motion_energy |->
      SmoothEnergy(render.render_motion_energy, target.motion_energy, dt_ms),
    render_phase |-> IF resetPhase THEN FromInt(0) ELSE render.render_phase ]

\* ApplyRender that leaves render_color as it was (the colour is not copied)
ApplyRenderKeepColor(render, target, dt_ms, resetPhase) ==
  [ render_color |-> render.render_color,
    render_brightness |-> target.brightness,
    render_motion_energy |->
      SmoothEnergy(render.render_motion_energy, target.motion_energy, dt_ms),
    render_phase |-> IF resetPhase THEN FromInt(0) ELSE render.render_phase ]

\* ApplyRender that also advances the phase by one command interval's drift
ApplyRenderAdvancing(render, target, dt_ms, resetPhase) ==
  [ render_color |-> [r |-> target.r, g |-> target.g, b |-> target.b],
    render_brightness |-> target.brightness,
    render_motion_energy |->
      SmoothEnergy(render.render_motion_energy, target.motion_energy, dt_ms),
    render_phase |-> IF resetPhase
                       THEN FromInt(0)
                       ELSE RAdd(render.render_phase,
                                 Rat(target.motion_speed, 100)) ]

\* the render state after the update (lines 105-118)
ApplyRender(render, target, dt_ms, resetPhase) ==
  [ render_color |-> [r |-> target.r, g |-> target.g, b |-> target.b],
    render_brightness |-> target.brightness,
    render_motion_energy |->
      SmoothEnergy(render.render_motion_energy, target.motion_energy, dt_ms),
    render_phase |-> IF resetPhase THEN FromInt(0) ELSE render.render_phase ]

\* the locals of the last call: dt_ms, resetPhase and skipPhaseAdvance of
\* updateStateFromPacket; the clamped packet_dt_s (ms) and step of
\* advanceRenderPhase
Locals(dt_ms, resetPhase, skip, interval, step) ==
  [ dt_ms |-> dt_ms, resetPhase |-> resetPhase, skipPhaseAdvance |-> skip,
    interval |-> interval, step |-> step ]

NoLocals == Locals(0, FALSE, FALSE, 0, FromInt(0))

updateStateFromPacket(packet, nowMs) ==
  LET hyst   == Hysteresis(stableDirection, dirStableCount, packet.motion_direction)
      gap    == FrameGap(haveFrame, lastFrameId, packet.frame_id)
      timing == Interval(haveFrame, lastFrameMs, nowMs, gap)
      target == ApplyTarget(cfg, targetState, packet, hyst.stable)
  IN  /\ stableDirection' = hyst.stable
      /\ dirStableCount' = hyst.count
      /\ lastFrameId' = packet.frame_id
      /\ lastFrameMs' = nowMs
      /\ haveFrame' = TRUE
      /\ targetState' = target
      /\ renderState' = ApplyRender(renderState, target, timing.dt_ms, timing.resetPhase)
      /\ locals' = Locals(timing.dt_ms, timing.resetPhase, gap.skipPhaseAdvance,
                          0, FromInt(0))
      /\ UNCHANGED <<cfg, rxPacket, rxReturn, fastled>>

(***************************************************************************)
(* state.cpp: advanceRenderPhase                                           *)
(***************************************************************************)
\* ClampInterval without the ceiling
ClampIntervalNoCeiling(packet_dt_s) ==
  IF packet_dt_s < 10 THEN 10 ELSE packet_dt_s

\* the clamp of packet_dt_s (lines 134-135), in milliseconds
ClampInterval(packet_dt_s) ==
  LET low == IF packet_dt_s < 10 THEN 10 ELSE packet_dt_s
  IN  IF low > 120 THEN 120 ELSE low

\* DirScalar with the thresholds 96 and 160 counted as left and right
DirScalarInclusive(direction) ==
  IF direction = 0 THEN 0
  ELSE IF direction <= 96 THEN -1
  ELSE IF direction >= 160 THEN 1
  ELSE 0

\* the direction scalar dir (lines 138-145)
DirScalar(direction) ==
  IF direction = 0 THEN 0
  ELSE IF direction < 96 THEN -1
  ELSE IF direction > 160 THEN 1
  ELSE 0

\* step = (speed * dir) * (dt_s / packet_dt_s), speed = motion_speed / 100
\* (lines 147-148); dt_s and interval are both in milliseconds
PhaseStep(target, dt_s, interval) ==
  Rat(target.motion_speed * DirScalar(target.motion_direction) * dt_s, 100 * interval)

\* advanceRenderPhase without the early return of line 131
advanceRenderPhaseNoReturn(dt_s, packet_dt_s) ==
  LET interval == ClampInterval(packet_dt_s)
      step     == PhaseStep(targetState, dt_s, interval)
  IN  /\ renderState' = [renderState EXCEPT
                           !.render_phase = RAdd(renderState.render_phase, step)]
      /\ locals' = Locals(0, FALSE, FALSE, interval, step)
      /\ UNCHANGED <<cfg, targetState, haveFrame, lastFrameId, lastFrameMs,
                     stableDirection, dirStableCount, rxPacket, rxReturn, fastled>>

advanceRenderPhase(dt_s, packet_dt_s) ==
  LET interval == ClampInterval(packet_dt_s)
      step     == IF dt_s <= 0 THEN FromInt(0) ELSE PhaseStep(targetState, dt_s, interval)
  IN  /\ renderState' = IF dt_s <= 0
                           THEN renderState
                           ELSE [renderState EXCEPT
                                   !.render_phase = RAdd(renderState.render_phase, step)]
      /\ locals' = Locals(0, FALSE, FALSE, IF dt_s <= 0 THEN 0 ELSE interval, step)
      /\ UNCHANGED <<cfg, targetState, haveFrame, lastFrameId, lastFrameMs,
                     stableDirection, dirStableCount, rxPacket, rxReturn, fastled>>

(***************************************************************************)
(* modes.cpp and renderer.cpp                                              *)
(***************************************************************************)
\* FastLED.setBrightness((uint8_t)std::min(255.0f, std::max(0.0f, b)))
SetBrightness(b) == TruncU8(RMin(FromInt(255), RMax(FromInt(0), b)))

\* the brightness renderMode1 sets (lines 21-26)
Mode1Brightness(c, render) ==
  LET b    == FromInt(render.render_brightness)
      gain == RMul(b, Rat(c.BRIGHTNESS_GAIN, 100))
  IN  SetBrightness(IF c.STRICT_PACKET_BRIGHTNESS = 0
                      THEN RMax(gain, FromInt(96))
                      ELSE b)

\* the brightness renderMode2 sets (lines 43-48)
Mode2Brightness(c, render) ==
  LET b    == FromInt(render.render_brightness)
      gain == RMul(RMul(b, Rat(c.BRIGHTNESS_GAIN, 100)), Rat(110, 100))
  IN  SetBrightness(IF c.STRICT_PACKET_BRIGHTNESS = 0
                      THEN RMax(gain, FromInt(110))
                      ELSE b)

\* the brightness renderMode4 sets (lines 66-73)
Mode4Brightness(c, render) ==
  LET b       == FromInt(render.render_brightness)
      floored == IF c.STRICT_PACKET_BRIGHTNESS = 0 THEN RMax(b, FromInt(110)) ELSE b
  IN  SetBrightness(IF c.FORCE_MAX_BRIGHTNESS /= 0 THEN FromInt(255) ELSE floored)

renderMode1(c, render) == [effect |-> "sine", brightness |-> Mode1Brightness(c, render)]

renderMode2(c, render) == [effect |-> "ripple", brightness |-> Mode2Brightness(c, render)]

renderMode3(c, render) == renderMode2(c, render)

renderMode4(c, render) == [effect |-> "breathing", brightness |-> Mode4Brightness(c, render)]

renderMode5(c, render) == [effect |-> "off", brightness |-> 0]

\* Dispatch whose default arm is the off effect
DispatchDefaultOff(mode) ==
  CASE mode = 1 -> <<"renderMode1">>
    [] mode = 2 -> <<"renderMode2">>
    [] mode = 3 -> <<"renderMode3">>
    [] mode = 4 -> <<"renderMode4">>
    [] OTHER    -> <<"renderMode5">>

\* the switch of renderFrame (lines 27-34): the functions it calls, in order
Dispatch(mode) ==
  CASE mode = 1 -> <<"renderMode1">>
    [] mode = 2 -> <<"renderMode2">>
    [] mode = 3 -> <<"renderMode3">>
    [] mode = 4 -> <<"renderMode4">>
    [] mode = 5 -> <<"renderMode5">>
    [] OTHER    -> <<"renderMode4">>

RunMode(name, c, render) ==
  CASE name = "renderMode1" -> renderMode1(c, render)
    [] name = "renderMode2" -> renderMode2(c, render)
    [] name = "renderMode3" -> renderMode3(c, render)
    [] name = "renderMode4" -> renderMode4(c, render)
    [] name = "renderMode5" -> renderMode5(c, render)

\* the driver after the calls of renderFrame (lines 27-35): every effect
\* overwrites the whole buffer and the brightness, so the last call decides
\* what FastLED.show() puts out
renderFrame ==
  LET calls == Dispatch(targetState.mode)
      out   == IF calls = <<>>
                 THEN [effect |-> fastled.effect, brightness |-> fastled.brightness]
                 ELSE RunMode(calls[Len(calls)], cfg, renderState)
  IN  /\ fastled' = [ dispatched |-> calls, effect |-> out.effect,
                      brightness |-> out.brightness, shown |-> TRUE ]
      /\ locals' = NoLocals
      /\ UNCHANGED <<cfg, targetState, renderState, haveFrame, lastFrameId,
                     lastFrameMs, stableDirection, dirStableCount, rxPacket, rxReturn>>

(***************************************************************************)
(* network.cpp: receivePacket                                              *)
(***************************************************************************)
RECURSIVE BitXor(_, _)
BitXor(a, b) ==
  IF a = 0 THEN b
  ELSE IF b = 0 THEN a
  ELSE 2 * BitXor(a \div 2, b \div 2) + ((a + b) % 2)

\* checksum ^= buf[i] for i = 1..9 (lines 42-43); buf[i] is datagram[i + 1]
RECURSIVE ChecksumUpTo(_, _)
ChecksumUpTo(datagram, i) ==
  IF i = 0 THEN 0 ELSE BitXor(ChecksumUpTo(datagram, i - 1), datagram[i + 1])

\* Checksum over buf[1..8] only
ChecksumShort(datagram) == ChecksumUpTo(datagram, 8)

Checksum(datagram) == ChecksumUpTo(datagram, 9)

\* the three checks, in the order of the code (lines 36, 40, 44)
Accepts(datagram) ==
  /\ Len(datagram) = PACKET_SIZE
  /\ datagram[1] = 170 /\ datagram[12] = 85
  /\ datagram[11] = Checksum(datagram)

\* the copy to the caller's Packet (lines 46-54)
Decode(datagram) ==
  MkPacket(datagram[2], datagram[3], datagram[4], datagram[5], datagram[6],
           datagram[7], datagram[8], datagram[9], datagram[10])

receivePacket(datagram) ==
  /\ rxPacket' = IF Accepts(datagram) THEN Decode(datagram) ELSE rxPacket
  /\ rxReturn' = Accepts(datagram)
  /\ locals' = NoLocals
  /\ UNCHANGED <<cfg, targetState, renderState, haveFrame, lastFrameId,
                 lastFrameMs, stableDirection, dirStableCount, fastled>>

(***************************************************************************)
(* The control loop (the specification's section 5; its source is not part *)
(* of the files modelled): a command that receivePacket has just accepted  *)
(* is handed to updateStateFromPacket with the current millis()            *)
(***************************************************************************)
loopDeliver(nowMs) ==
  /\ obs.op = "receive"
  /\ rxReturn
  /\ updateStateFromPacket(rxPacket, nowMs)

(***************************************************************************)
(* Observation of the run: the operation that led to the current state,    *)
(* with its arguments, and on request the operation before it and the      *)
(* state it started from                                                   *)
(***************************************************************************)
Snapshot ==
  [ targetState |-> targetState, renderState |-> renderState,
    haveFrame |-> haveFrame, lastFrameId |-> lastFrameId,
    lastFrameMs |-> lastFrameMs, stableDirection |-> stableDirection,
    dirStableCount |-> dirStableCount, rxPacket |-> rxPacket ]

NoSnapshot == [none |-> TRUE]

NoPrev == [op |-> "none", packet |-> ZeroPacket, nowMs |-> ULong(0, 0), datagram |-> <<>>]

NoObs ==
  [ op |-> "init", packet |-> ZeroPacket, nowMs |-> ULong(0, 0), dt_s |-> 0,
    packet_dt_s |-> 0, datagram |-> <<>>, prev |-> NoPrev, pre |-> NoSnapshot ]

Observe(op, packet, nowMs, dt_s, packet_dt_s, datagram, keepPrev, keepPre) ==
  obs' = [ op |-> op, packet |-> packet, nowMs |-> nowMs, dt_s |-> dt_s,
           packet_dt_s |-> packet_dt_s, datagram |-> datagram,
           prev |-> CASE keepPrev = "all" ->
                           [ op |-> obs.op, packet |-> obs.packet,
                             nowMs |-> obs.nowMs, datagram |-> obs.datagram ]
                      [] keepPrev = "op" -> [NoPrev EXCEPT !.op = obs.op]
                      [] OTHER -> NoPrev,
           pre |-> IF keepPre THEN Snapshot ELSE NoSnapshot ]

ObserveUpdate(packet, nowMs, keepPrev, keepPre) ==
  Observe("update", packet, nowMs, 0, 0, <<>>, keepPrev, keepPre)

ObserveAdvance(dt_s, packet_dt_s, keepPrev, keepPre) ==
  Observe("advance", ZeroPacket, ULong(0, 0), dt_s, packet_dt_s, <<>>, keepPrev, keepPre)

ObserveRender(keepPrev, keepPre) ==
  Observe("render", ZeroPacket, ULong(0, 0), 0, 0, <<>>, keepPrev, keepPre)

ObserveReceive(datagram, keepPrev, keepPre) ==
  Observe("receive", ZeroPacket, ULong(0, 0), 0, 0, datagram, keepPrev, keepPre)

(***************************************************************************)
(* Start-up: static initialisation, initState() and setupLEDs()            *)
(***************************************************************************)
InitWith(c, packet) ==
  /\ cfg = c
  /\ targetState = InitTargetState(c)
  /\ renderState = InitRenderState(c)
  /\ haveFrame = FALSE
  /\ lastFrameId = 0
  /\ lastFrameMs = ULong(0, 0)
  /\ stableDirection = 128
  /\ dirStableCount = 0
  /\ rxPacket = packet
  /\ rxReturn = FALSE
  /\ fastled = [dispatched |-> <<>>, effect |-> "cleared", brightness |-> 255, shown |-> TRUE]
  /\ locals = NoLocals
  /\ obs = NoObs

(***************************************************************************)
(* Bounds of the explored state space                                      *)
(***************************************************************************)
\* |render_phase| stays within MaxPhase
MaxPhase == 1

\* the denominator of render_motion_energy stays within MaxEnergyDen
MaxEnergyDen == 2

Bounded ==
  /\ RLeq(FromInt(-MaxPhase), renderState.render_phase)
  /\ RLeq(renderState.render_phase, FromInt(MaxPhase))
  /\ renderState.render_motion_energy.d <= MaxEnergyDen

(***************************************************************************)
(* Spec: command sequencing, timing and the phase, config.h as it is       *)
(***************************************************************************)
SeqFrames == {0, 1, 5, 6, 12, 255}

\* millis() readings: gaps below 5 ms, inside 5..120 ms, of exactly 120 ms,
\* above 120 ms, backward, and across the 2^32 wrap
SeqTimes == {ULong(0, 0), ULong(0, 3), ULong(0, 43), ULong(0, 163), ULong(65535, 65526)}

SeqPackets ==
  { MkPacket(2, 200, 100, 50, 180, e, 50, 224, f) : e \in {0, 90}, f \in SeqFrames }

SeqUpdate ==
  \E p \in SeqPackets, t \in SeqTimes :
    updateStateFromPacket(p, t) /\ ObserveUpdate(p, t, "no", FALSE) /\ Bounded'

SeqAdvance ==
  \E dt \in {0, 20}, i \in {40} :
    advanceRenderPhase(dt, i) /\ ObserveAdvance(dt, i, "no", FALSE) /\ Bounded'

SeqRender == renderFrame /\ ObserveRender("no", FALSE)

Init == InitWith(DefaultConfig, ZeroPacket)

Next == SeqUpdate \/ SeqAdvance \/ SeqRender

Spec == Init /\ [][Next]_vars

(***************************************************************************)
(* Frame gaps                                                              *)
(***************************************************************************)
\* render_motion_energy after an update that blends nothing: the value
\* before, or 1 when that is below 1 and the commanded energy is not 0
Unblended(energy, target_energy) ==
  IF RLess(energy, FromInt(1)) /\ target_energy > 0 THEN FromInt(1) ELSE energy

\* C4: an update that follows an accepted command and whose frame_id is not
\* the previous one plus 1 (mod 256) leaves render_phase exactly 0; when the
\* forward distance (frame_id - previous) mod 256 also exceeds 5, its
\* effective delta dt_ms is 0 and render_motion_energy is not blended toward
\* the commanded value, whatever the phase and the timestamps were.
C4_FrameGapResetsPhase ==
  [][ ( /\ obs'.op = "update"
        /\ haveFrame
        /\ obs'.packet.frame_id /= (lastFrameId + 1) % 256 )
      => /\ renderState'.render_phase = FromInt(0)
         /\ ( (obs'.packet.frame_id - lastFrameId) % 256 > 5
               => /\ locals'.dt_ms = 0
                  /\ renderState'.render_motion_energy =
                       Unblended(renderState.render_motion_energy,
                                 obs'.packet.motion_energy) ) ]_vars

\* an update for frame 12 across a gap above 5 was reached: it reset the
\* phase and kept an energy that differs from the commanded one
C4_Witness ==
  /\ obs.op = "update"
  /\ obs.packet.frame_id = 12
  /\ locals.resetPhase /\ locals.skipPhaseAdvance /\ locals.dt_ms = 0
  /\ renderState.render_phase = FromInt(0)
  /\ renderState.render_motion_energy /= FromInt(targetState.motion_energy)

(***************************************************************************)
(* Timing of the commands                                                  *)
(***************************************************************************)
\* the fields of the target state that a command with a non-zero brightness
\* sets, whatever its timing
TargetFollows(c, target, packet) ==
  /\ target.mode = packet.mode
  /\ target.r = Min(packet.r, c.MAX_R % 256)
  /\ target.g = Min(packet.g, c.MAX_G % 256)
  /\ target.b = Min(packet.b, c.MAX_B % 256)
  /\ packet.brightness /= 0
       => target.brightness = Min(packet.brightness, c.BRIGHTNESS_CAP % 256)
  /\ target.motion_energy = packet.motion_energy
  /\ target.motion_speed = Min(packet.motion_speed, c.MOTION_SPEED_CAP % 256)

\* the frame_id is out of sequence by a forward distance above 5
LargeGap(prevFrame, frame_id) ==
  frame_id /= (prevFrame + 1) % 256 /\ (frame_id - prevFrame) % 256 > 5

\* C14 as claimed: for every update after the first, a timestamp more than
\* 120 ms after the last accepted one, or numerically earlier than it, makes
\* the update set render_phase to 0 and use the delta 0; an elapsed time
\* below 5 ms gives the delta 5 ms; and the target state is updated from the
\* command in every case.
C14_AsClaimed ==
  [][ (obs'.op = "update" /\ haveFrame)
      => LET earlier == ULongLess(obs'.nowMs, lastFrameMs)
             elapsed == ULongUpTo(ULongSub(obs'.nowMs, lastFrameMs), 120)
         IN  /\ (earlier \/ elapsed > 120)
                  => /\ renderState'.render_phase = FromInt(0)
                     /\ locals'.dt_ms = 0
             /\ (~earlier /\ elapsed < 5) => locals'.dt_ms = 5
             /\ TargetFollows(cfg, targetState', obs'.packet) ]_vars

\* C14: for every update after the first, with the elapsed time counted as
\* the code counts it, (timestamp - last accepted timestamp) mod 2^32: an
\* elapsed time above 120 ms (every backward jump except one that lands
\* within 120 ms past a full wrap of the clock) makes the update set
\* render_phase to 0 and use the delta 0; an elapsed time below 5 ms gives
\* the delta 5 ms and one within 5..120 ms gives itself, unless the frame gap
\* is above 5, which forces the delta 0; the delta is always 0 or within
\* 5..120 ms; and the target state is updated from the command in every
\* case.
C14_TimingDegrades ==
  [][ (obs'.op = "update" /\ haveFrame)
      => LET elapsed == ULongUpTo(ULongSub(obs'.nowMs, lastFrameMs), 120)
             skipped == LargeGap(lastFrameId, obs'.packet.frame_id)
         IN  /\ elapsed > 120
                  => /\ renderState'.render_phase = FromInt(0)
                     /\ locals'.dt_ms = 0
             /\ elapsed < 5 => locals'.dt_ms = (IF skipped THEN 0 ELSE 5)
             /\ elapsed \in 5..120
                  => locals'.dt_ms = (IF skipped THEN 0 ELSE elapsed)
             /\ locals'.dt_ms \in {0} \cup 5..120
             /\ TargetFollows(cfg, targetState', obs'.packet)
             /\ haveFrame' /\ lastFrameId' = obs'.packet.frame_id
             /\ lastFrameMs' = obs'.nowMs ]_vars

\* a command arrived 13 ms after the last one across the wrap of the
\* clock (its timestamp is numerically below the last one): the delta was
\* 13 ms and the phase that ticks had moved was kept
C14_Witness ==
  /\ obs.op = "update" /\ obs.nowMs = ULong(0, 3)
  /\ locals.dt_ms = 13 /\ ~locals.resetPhase
  /\ renderState.render_phase /= FromInt(0)

\* C15: after every update, render_motion_energy is at least 1 when
\* targetState.motion_energy is above 0; it equals targetState.motion_energy
\* exactly when the effective delta is 10 ms or more; and when the effective
\* delta was forced to 0 it keeps the value it had, except for the snap up
\* to 1.
C15_EnergySmoothing ==
  [][ obs'.op = "update"
      => /\ targetState'.motion_energy > 0
              => RLeq(FromInt(1), renderState'.render_motion_energy)
         /\ locals'.dt_ms >= 10
              => renderState'.render_motion_energy
                   = FromInt(targetState'.motion_energy)
         /\ locals'.dt_ms = 0
              => renderState'.render_motion_energy
                   = Unblended(renderState.render_motion_energy,
                               targetState'.motion_energy) ]_vars

\* a command with energy 90 whose delta was forced to 0 found the smoothed
\* energy below 1 and snapped it up to 1
C15_Witness ==
  /\ obs.op = "update" /\ locals.dt_ms = 0
  /\ targetState.motion_energy = 90
  /\ renderState.render_motion_energy = FromInt(1)

\* C20: an update never advances render_phase: after it the phase is the
\* value it had before or exactly 0, and it changes (to 0) only when a
\* command came before and the update found frame_id other than
\* (previous + 1) mod 256 or an interval above 120 ms; a rendered frame
\* leaves the render state alone, so every other movement of the phase
\* comes from advanceRenderPhase.
C20_UpdateNeverAdvances ==
  [][ /\ obs'.op = "update"
           => LET detected ==
                    /\ haveFrame
                    /\ \/ obs'.packet.frame_id /= (lastFrameId + 1) % 256
                       \/ ULongUpTo(ULongSub(obs'.nowMs, lastFrameMs), 120) > 120
              IN  /\ renderState'.render_phase
                       \in {renderState.render_phase, FromInt(0)}
                  /\ renderState'.render_phase /= renderState.render_phase
                       => detected
      /\ obs'.op = "render" => renderState' = renderState
      /\ renderState'.render_phase /= renderState.render_phase
           => obs'.op \in {"update", "advance"} ]_vars

\* a command for frame 6, in sequence and 5 ms (after the floor) from the
\* last one, kept the phase 3/4 that ticks had built up
C20_Witness ==
  /\ obs.op = "update" /\ obs.packet.frame_id = 6
  /\ locals.dt_ms = 5 /\ ~locals.resetPhase
  /\ renderState.render_phase = Rat(3, 4)

(***************************************************************************)
(* SpecRepeat: commands repeated in sequence, the operation before the     *)
(* last one observed                                                       *)
(***************************************************************************)
RepeatFrames == {5, 6, 7}

RepeatTimes == {ULong(0, 0), ULong(0, 43), ULong(0, 86), ULong(0, 249)}

RepeatPackets ==
  { MkPacket(2, 200, 100, 50, br, 90, 50, 224, f) : br \in {0, 180}, f \in RepeatFrames }

RepeatUpdate ==
  \E p \in RepeatPackets, t \in RepeatTimes :
    updateStateFromPacket(p, t) /\ ObserveUpdate(p, t, "all", FALSE) /\ Bounded'

RepeatAdvance ==
  \E dt \in {20}, i \in {40} :
    advanceRenderPhase(dt, i) /\ ObserveAdvance(dt, i, "all", FALSE) /\ Bounded'

RepeatRender == renderFrame /\ ObserveRender("all", FALSE)

NextRepeat == RepeatUpdate \/ RepeatAdvance \/ RepeatRender

SpecRepeat == Init /\ [][NextRepeat]_vars

\* the command q is the command p again, with the next frame_id
Repeats(q, p) == q = [p EXCEPT !.frame_id = (p.frame_id + 1) % 256]

\* the time from a to b is inside the normal band, 5..120 ms
InBand(a, b) == ULongUpTo(ULongSub(b, a), 120) \in 5..120

\* C6: when a command has just been applied and the same command, with
\* frame_id + 1 (mod 256), is applied next, 5..120 ms later and with no render
\* tick in between, render_color and render_brightness after the second
\* application equal those after the first, and render_phase is not smaller.
C6_Idempotent ==
  [][ ( /\ obs.op = "update"
        /\ obs'.op = "update"
        /\ Repeats(obs'.packet, obs.packet)
        /\ InBand(obs.nowMs, obs'.nowMs) )
      => /\ renderState'.render_color = renderState.render_color
         /\ renderState'.render_brightness = renderState.render_brightness
         /\ RLeq(renderState.render_phase, renderState'.render_phase) ]_vars

\* a command was applied twice in a row, in sequence and in the band, with a
\* phase that ticks had moved away from 0 before
C6_Witness ==
  /\ obs.op = "update" /\ obs.prev.op = "update"
  /\ Repeats(obs.packet, obs.prev.packet)
  /\ InBand(obs.prev.nowMs, obs.nowMs)
  /\ renderState.render_phase /= FromInt(0)

\* C13: an update asks for a phase reset whenever a command came before and
\* frame_id is not (previous + 1) mod 256; when no command came before or
\* frame_id is (previous + 1) mod 256, and the interval does not exceed
\* 120 ms, it asks for none and leaves render_phase as it was.  In
\* particular frame_id 0 that follows 255 within 5..120 ms is in sequence.
C13_FrameWrap ==
  [][ obs'.op = "update"
      => LET inSeq == obs'.packet.frame_id = (lastFrameId + 1) % 256
             late  == haveFrame
                        /\ ULongUpTo(ULongSub(obs'.nowMs, lastFrameMs), 120) > 120
         IN  /\ (haveFrame /\ ~inSeq) => locals'.resetPhase
             /\ ((~haveFrame \/ inSeq) /\ ~late)
                  => /\ ~locals'.resetPhase
                     /\ renderState'.render_phase = renderState.render_phase
             /\ ( /\ haveFrame /\ lastFrameId = 255 /\ obs'.packet.frame_id = 0
                  /\ InBand(lastFrameMs, obs'.nowMs) )
                  => /\ ~locals'.resetPhase
                     /\ renderState'.render_phase = renderState.render_phase ]_vars

\* a command with frame_id 0 kept a phase that ticks had moved; the phase
\* moves only after a command (the speed is 0 before), so a command came
\* before this one, and as it asked for no reset that command had frame_id
\* 255
C13_Witness ==
  /\ obs.op = "update" /\ obs.packet.frame_id = 0
  /\ ~locals.resetPhase
  /\ renderState.render_phase /= FromInt(0)

(***************************************************************************)
(* SpecHyst: direction readings; the state each operation started from and *)
(* the operation before it are observed                                    *)
(***************************************************************************)
HystDirections == {0, 32, 128, 224}

HystPackets ==
  { MkPacket(2, 200, 100, 50, 180, 90, 50, d, f) : d \in HystDirections, f \in {5, 6} }

HystUpdate ==
  \E p \in HystPackets, t \in {ULong(0, 0), ULong(0, 43)} :
    updateStateFromPacket(p, t) /\ ObserveUpdate(p, t, "all", TRUE) /\ Bounded'

HystAdvance ==
  \E dt \in {20}, i \in {40} :
    advanceRenderPhase(dt, i) /\ ObserveAdvance(dt, i, "all", TRUE) /\ Bounded'

HystRender == renderFrame /\ ObserveRender("all", TRUE)

NextHyst == HystUpdate \/ HystAdvance \/ HystRender

SpecHyst == Init /\ [][NextHyst]_vars

\* the last operation was an update that started with the agreement counter
\* at 0 and carried a direction other than 0 and the stabilized one
AfterGlitch ==
  /\ obs.op = "update"
  /\ obs.pre.dirStableCount = 0
  /\ obs.packet.motion_direction /= 0
  /\ obs.packet.motion_direction /= obs.pre.stableDirection

\* C2: a single differing direction reading d (d /= 0), received while the
\* agreement counter is 0 and the stabilized direction is s, does not change
\* the stabilized direction, and after a next command that carries s again
\* the stabilized direction and targetState.motion_direction are still s.
C2_GlitchRejected ==
  [][ AfterGlitch
      => /\ stableDirection = obs.pre.stableDirection
         /\ targetState.motion_direction = obs.pre.stableDirection
         /\ ( (obs'.op = "update"
                /\ obs'.packet.motion_direction = obs.pre.stableDirection)
              => /\ stableDirection' = obs.pre.stableDirection
                 /\ targetState'.motion_direction = obs.pre.stableDirection ) ]_vars

\* a glitch and the reverting command were both applied
C2_Witness ==
  /\ obs.op = "update" /\ obs.prev.op = "update"
  /\ obs.pre.dirStableCount = 1
  /\ obs.prev.packet.motion_direction \notin {0, obs.pre.stableDirection}
  /\ obs.packet.motion_direction = obs.pre.stableDirection
  /\ obs.pre.stableDirection = 224
  /\ stableDirection = 224 /\ targetState.motion_direction = 224
  /\ dirStableCount = 0

\* C12: the stabilized direction changes to a value v only at an update that
\* completes 3 consecutive commands whose readings all equal v (and differ
\* from the stabilized value): the command that changes it carries v, it is
\* not the first or the second command after start-up, and when the one or
\* two operations before it were commands too, they carried v as well; so
\* readings that disagree with each other (32, 224, 32 while stabilized at
\* 128) commit nothing.
C12_CommitNeedsThreeAgreeing ==
  [][ (obs'.op = "update" /\ stableDirection' /= stableDirection)
      => /\ obs'.packet.motion_direction = stableDirection'
         /\ obs.op /= "init"
         /\ ~(obs.op = "update" /\ obs.prev.op = "init")
         /\ obs.op = "update"
              => /\ obs.packet.motion_direction = stableDirection'
                 /\ obs.packet.motion_direction /= stableDirection
         /\ (obs.op = "update" /\ obs.prev.op = "update")
              => /\ obs.prev.packet.motion_direction = stableDirection'
                 /\ obs.prev.packet.motion_direction /= stableDirection ]_vars

\* C19: in every state reached from initState the stabilized direction and
\* targetState.motion_direction are not 0, the value that means no hint, and
\* the agreement counter is 0, 1 or 2.
C19_NoSentinel ==
  /\ stableDirection /= 0
  /\ targetState.motion_direction /= 0
  /\ dirStableCount \in {0, 1, 2}

\* three commands in a row carried the direction 0 (the last one found the
\* counter at 2 and left it there) and the stabilized direction is still 128
C19_Witness ==
  /\ obs.op = "update" /\ obs.prev.op = "update"
  /\ obs.packet.motion_direction = 0
  /\ obs.prev.packet.motion_direction = 0
  /\ obs.pre.dirStableCount = 2 /\ dirStableCount = 2
  /\ stableDirection = 128 /\ targetState.motion_direction = 128

(***************************************************************************)
(* SpecTarget: the target state under several configurations; the          *)
(* operation before the last one is observed                               *)
(***************************************************************************)
\* MAX_R, MAX_G, MAX_B as configured: config.h, lower maxima, and maxima
\* that do not fit a uint8_t
TargetMaxima == { <<255, 255, 255, 1>>, <<255, 255, 255, 0>>,
                  <<200, 100, 50, 1>>, <<128, 0, 300, 0>> }

\* each with PACKET_BRIGHTNESS_ZERO_IS_NOHINT enabled or disabled
TargetConfigs ==
  { [DefaultConfig EXCEPT !.MAX_R = m[1], !.MAX_G = m[2], !.MAX_B = m[3],
                          !.PACKET_BRIGHTNESS_ZERO_IS_NOHINT = m[4]] :
      m \in TargetMaxima }

TargetColors == { <<200, 100, 50>>, <<129, 1, 45>>, <<255, 255, 255>> }

TargetPackets ==
  { MkPacket(m, c[1], c[2], c[3], br, 90, 50, 200, f) :
      m \in {2, 5}, c \in TargetColors, br \in {0, 180}, f \in {1, 9} }

TargetUpdate ==
  \E p \in TargetPackets, t \in {ULong(0, 0), ULong(0, 777)} :
    updateStateFromPacket(p, t) /\ ObserveUpdate(p, t, "op", FALSE) /\ Bounded'

TargetAdvance ==
  \E dt \in {20}, i \in {10} :
    advanceRenderPhase(dt, i) /\ ObserveAdvance(dt, i, "op", FALSE) /\ Bounded'

TargetRender == renderFrame /\ ObserveRender("op", FALSE)

InitTarget == \E c \in TargetConfigs : InitWith(c, ZeroPacket)

NextTarget == TargetUpdate \/ TargetAdvance \/ TargetRender

SpecTarget == InitTarget /\ [][NextTarget]_vars

\* C1: after every call of updateStateFromPacket, for any packet and any
\* configured maxima, targetState.r <= MAX_R, targetState.g <= MAX_G and
\* targetState.b <= MAX_B.
C1_ChannelsWithinMaxima ==
  obs.op = "update"
    => /\ targetState.r <= cfg.MAX_R
       /\ targetState.g <= cfg.MAX_G
       /\ targetState.b <= cfg.MAX_B

\* an update whose packet exceeded all three maxima was cut down to them
C1_Witness ==
  /\ obs.op = "update"
  /\ obs.packet.r > cfg.MAX_R /\ targetState.r = cfg.MAX_R
  /\ obs.packet.g > cfg.MAX_G /\ targetState.g = cfg.MAX_G
  /\ obs.packet.b > cfg.MAX_B /\ targetState.b = cfg.MAX_B

\* C3: an update whose packet has brightness 0 leaves targetState.brightness
\* as it was when PACKET_BRIGHTNESS_ZERO_IS_NOHINT is enabled and the mode is
\* not 5, and sets it to 0 when the policy is disabled or the mode is 5.
C3_ZeroBrightnessHint ==
  [][ (obs'.op = "update" /\ obs'.packet.brightness = 0)
      => IF cfg.PACKET_BRIGHTNESS_ZERO_IS_NOHINT /= 0 /\ obs'.packet.mode /= 5
           THEN targetState'.brightness = targetState.brightness
           ELSE targetState'.brightness = 0 ]_vars

\* a zero hint kept the brightness 180 of the command before it
C3_Witness ==
  /\ obs.op = "update" /\ obs.prev.op = "update"
  /\ cfg.PACKET_BRIGHTNESS_ZERO_IS_NOHINT = 1
  /\ obs.packet.brightness = 0 /\ obs.packet.mode /= 5
  /\ targetState.brightness = 180

\* the packet's channels and speed are within the caps and its brightness is
\* not 0
WithinCaps(c, packet) ==
  /\ packet.r <= c.MAX_R /\ packet.g <= c.MAX_G /\ packet.b <= c.MAX_B
  /\ packet.motion_speed <= c.MOTION_SPEED_CAP
  /\ packet.brightness /= 0

\* C7: the first update ever, with a packet within the caps and a non-zero
\* brightness, stores the packet's mode, r, g, b, brightness, motion_energy
\* and motion_speed as they come, leaves targetState.motion_direction at 128
\* whatever direction the packet carries, and makes render_color and
\* render_brightness equal to the new target, for every frame_id and
\* timestamp.
C7_FirstCommand ==
  [][ (obs'.op = "update" /\ ~haveFrame /\ WithinCaps(cfg, obs'.packet))
      => /\ targetState' =
              [ mode |-> obs'.packet.mode, r |-> obs'.packet.r,
                g |-> obs'.packet.g, b |-> obs'.packet.b,
                brightness |-> obs'.packet.brightness,
                motion_energy |-> obs'.packet.motion_energy,
                motion_speed |-> obs'.packet.motion_speed,
                motion_direction |-> 128 ]
         /\ renderState'.render_color =
              [r |-> obs'.packet.r, g |-> obs'.packet.g, b |-> obs'.packet.b]
         /\ renderState'.render_brightness = obs'.packet.brightness ]_vars

\* the command of the end-to-end scenario was applied first, right after
\* start-up
C7_Witness ==
  /\ obs.op = "update" /\ obs.prev.op = "init"
  /\ obs.packet = MkPacket(2, 200, 100, 50, 180, 90, 50, 200, 1)
  /\ targetState.motion_direction = 128
  /\ targetState.r = 200 /\ renderState.render_brightness = 180

\* C17: in every state reached from initState by updates, render ticks and
\* rendered frames, render_color is (targetState.r, targetState.g,
\* targetState.b) and render_brightness is targetState.brightness.
C17_RenderMirrorsTarget ==
  /\ renderState.render_color
       = [r |-> targetState.r, g |-> targetState.g, b |-> targetState.b]
  /\ renderState.render_brightness = targetState.brightness

\* a frame was rendered after a tick, with the colour of a command cut down
\* to the maxima 200, 100, 50 and the brightness 180 that a zero hint kept
C17_Witness ==
  /\ obs.op = "render" /\ obs.prev.op = "advance"
  /\ cfg.MAX_R = 200
  /\ targetState.r = 200 /\ targetState.g = 100 /\ targetState.b = 50
  /\ targetState.brightness = 180
  /\ renderState.render_brightness = 180
  /\ renderState.render_color = [r |-> 200, g |-> 100, b |-> 50]

(***************************************************************************)
(* SpecPhase: render ticks with many command intervals                     *)
(***************************************************************************)
PhasePackets ==
  { MkPacket(2, 200, 100, 50, 180, 90, sp, d, 5) : sp \in {0, 50}, d \in {32, 128, 224} }

\* packet_dt_s in ms: negative, zero, below 10, 10, inside, 120, above
PhaseIntervals == {-5, 0, 9, 10, 40, 120, 121, 1000}

PhaseUpdate ==
  \E p \in PhasePackets, t \in {ULong(0, 0)} :
    updateStateFromPacket(p, t) /\ ObserveUpdate(p, t, "no", FALSE) /\ Bounded'

PhaseAdvance ==
  \E dt \in {-5, 0, 20}, i \in PhaseIntervals :
    advanceRenderPhase(dt, i) /\ ObserveAdvance(dt, i, "no", FALSE) /\ Bounded'

PhaseRender == renderFrame /\ ObserveRender("no", FALSE)

NextPhase == PhaseUpdate \/ PhaseAdvance \/ PhaseRender

SpecPhase == Init /\ [][NextPhase]_vars

\* the divisor the claim asks for: 120 ms for 120 ms and more, 10 ms for
\* 10 ms and less (zero and negative included), the interval itself between
ClaimedInterval(packet_dt_s) ==
  IF packet_dt_s >= 120 THEN 120 ELSE IF packet_dt_s <= 10 THEN 10 ELSE packet_dt_s

\* C5: in every call advanceRenderPhase(dt_s, packet_dt_s) with dt_s > 0 the
\* divisor of the phase step is within 10..120 ms, and render_phase moves by
\* (motion_speed / 100) * dir * dt_s / interval, where the interval is 120 ms
\* for every packet_dt_s of 120 ms or more (1000 ms included) and 10 ms for
\* every packet_dt_s of 10 ms or less (zero and negative included).
C5_IntervalClamped ==
  [][ (obs'.op = "advance" /\ obs'.dt_s > 0)
      => /\ locals'.interval \in 10..120
         /\ locals'.interval = ClaimedInterval(obs'.packet_dt_s)
         /\ renderState'.render_phase =
              RAdd(renderState.render_phase,
                   Rat(targetState.motion_speed * DirScalar(targetState.motion_direction)
                         * obs'.dt_s,
                       100 * ClaimedInterval(obs'.packet_dt_s))) ]_vars

\* a tick with a 1000 ms interval moved the phase by the 120 ms step, 1/12
C5_Witness ==
  /\ obs.op = "advance" /\ obs.dt_s = 20 /\ obs.packet_dt_s = 1000
  /\ locals.interval = 120
  /\ locals.step = Rat(1, 12)
  /\ renderState.render_phase /= FromInt(0)

\* the render state with its phase left out
WithoutPhase(render) ==
  [ render_color |-> render.render_color,
    render_brightness |-> render.render_brightness,
    render_motion_energy |-> render.render_motion_energy ]

\* C11: advanceRenderPhase changes nothing at all when dt_s <= 0, and for any
\* arguments it leaves the target state, render_color, render_brightness,
\* render_motion_energy, the frame-sequencing state and the hysteresis state
\* (and the received packet and the LED driver) as they were: only
\* render_phase may change.
C11_AdvanceFrameCondition ==
  [][ obs'.op = "advance"
      => /\ targetState' = targetState
         /\ WithoutPhase(renderState') = WithoutPhase(renderState)
         /\ <<haveFrame, lastFrameId, lastFrameMs>>' = <<haveFrame, lastFrameId, lastFrameMs>>
         /\ <<stableDirection, dirStableCount>>' = <<stableDirection, dirStableCount>>
         /\ <<cfg, rxPacket, rxReturn, fastled>>' = <<cfg, rxPacket, rxReturn, fastled>>
         /\ (obs'.dt_s <= 0 => renderState' = renderState) ]_vars

\* a tick with a negative dt_s left a phase that earlier ticks had moved,
\* under a command that drifts to the right at speed 50
C11_Witness ==
  /\ obs.op = "advance" /\ obs.dt_s < 0
  /\ targetState.motion_speed = 50 /\ targetState.motion_direction = 224
  /\ renderState.render_phase /= FromInt(0)

(***************************************************************************)
(* SpecDrift: render ticks under directions at the thresholds              *)
(***************************************************************************)
DriftPackets ==
  { MkPacket(2, 200, 100, 50, 180, 90, sp, d, 5) :
      sp \in {0, 50}, d \in {95, 96, 160, 161} }

DriftUpdate ==
  \E p \in DriftPackets, t \in {ULong(0, 0)} :
    updateStateFromPacket(p, t) /\ ObserveUpdate(p, t, "no", FALSE) /\ Bounded'

DriftAdvance ==
  \E dt \in {20}, i \in {40, 1000} :
    advanceRenderPhase(dt, i) /\ ObserveAdvance(dt, i, "no", FALSE) /\ Bounded'

DriftRender == renderFrame /\ ObserveRender("no", FALSE)

NextDrift == DriftUpdate \/ DriftAdvance \/ DriftRender

SpecDrift == Init /\ [][NextDrift]_vars

\* C16: a render tick with dt_s > 0 does not raise render_phase while
\* targetState.motion_direction is in 1..95 and does not lower it while the
\* direction is in 161..255, and it moves it by exactly
\* (motion_speed / 100) * dt_s / clamped interval in that direction; it
\* leaves render_phase as it was while the direction is in 96..160 or the
\* speed is 0.  (So does every sequence of such ticks.)
C16_DriftDirection ==
  [][ (obs'.op = "advance" /\ obs'.dt_s > 0)
      => LET d     == targetState.motion_direction
             sp    == targetState.motion_speed
             before == renderState.render_phase
             after == renderState'.render_phase
             mag   == Rat(sp * obs'.dt_s, 100 * ClaimedInterval(obs'.packet_dt_s))
         IN  /\ d \in 1..95
                  => RLeq(after, before) /\ RSub(before, after) = mag
             /\ d \in 161..255
                  => RLeq(before, after) /\ RSub(after, before) = mag
             /\ (d \in 96..160 \/ sp = 0) => after = before ]_vars

\* a tick under the stabilized direction 95 and speed 50 moved the phase
\* below 0 by the step of a 40 ms interval, 1/4
C16_Witness ==
  /\ obs.op = "advance" /\ obs.packet_dt_s = 40
  /\ targetState.motion_direction = 95 /\ targetState.motion_speed = 50
  /\ locals.step = Rat(-1, 4)
  /\ RLess(renderState.render_phase, FromInt(0))

(***************************************************************************)
(* SpecDispatch: renderFrame for every mode id                             *)
(***************************************************************************)
DispatchPackets == { MkPacket(m, 200, 100, 50, 180, 90, 50, 128, 5) : m \in 0..255 }

DispatchUpdate ==
  \E p \in DispatchPackets, t \in {ULong(0, 0)} :
    updateStateFromPacket(p, t) /\ ObserveUpdate(p, t, "no", FALSE) /\ Bounded'

DispatchAdvance ==
  \E dt \in {20}, i \in {40} :
    advanceRenderPhase(dt, i) /\ ObserveAdvance(dt, i, "no", FALSE) /\ Bounded'

DispatchRender == renderFrame /\ ObserveRender("no", FALSE)

NextDispatch == DispatchUpdate \/ DispatchAdvance \/ DispatchRender

SpecDispatch == Init /\ [][NextDispatch]_vars

\* C8: for every mode id in 0..255 renderFrame calls exactly one effect, and
\* for every id outside 1..5 that effect is the breathing effect renderMode4,
\* the one called for mode 4.
C8_DispatchTotal ==
  obs.op = "render"
    => /\ Len(fastled.dispatched) = 1
       /\ (targetState.mode \notin 1..5 \/ targetState.mode = 4)
            => /\ fastled.dispatched = <<"renderMode4">>
               /\ fastled.effect = "breathing"

\* mode 255 was rendered by the breathing effect
C8_Witness ==
  /\ obs.op = "render" /\ targetState.mode = 255
  /\ fastled.dispatched = <<"renderMode4">> /\ fastled.effect = "breathing"

(***************************************************************************)
(* SpecRender: the strip brightness of each effect.  config.h defines      *)
(* neither STRICT_PACKET_BRIGHTNESS (read as 0) nor BRIGHTNESS_GAIN        *)
(* (supplied by the build)                                                 *)
(***************************************************************************)
RenderConfigs == { [DefaultConfig EXCEPT !.BRIGHTNESS_GAIN = g] : g \in {100, 130} }

RenderPackets ==
  { MkPacket(m, 200, 100, 50, br, 90, 50, 128, 5) :
      m \in {0, 1, 2, 3, 4, 5, 6}, br \in {10, 50, 95, 200, 255} }

RenderUpdate ==
  \E p \in RenderPackets, t \in {ULong(0, 0)} :
    updateStateFromPacket(p, t) /\ ObserveUpdate(p, t, "no", FALSE) /\ Bounded'

RenderAdvance ==
  \E dt \in {20}, i \in {40} :
    advanceRenderPhase(dt, i) /\ ObserveAdvance(dt, i, "no", FALSE) /\ Bounded'

RenderRender == renderFrame /\ ObserveRender("no", FALSE)

InitRender == \E c \in RenderConfigs : InitWith(c, ZeroPacket)

NextRender == RenderUpdate \/ RenderAdvance \/ RenderRender

SpecRender == InitRender /\ [][NextRender]_vars

\* C10: for every mode other than 5 the brightness handed to the LED driver
\* is render_brightness clamped to 0..255, with no gain and no floor.
C10_BrightnessDirect ==
  (obs.op = "render" /\ targetState.mode /= 5)
    => fastled.brightness = Max(0, Min(255, renderState.render_brightness))

(***************************************************************************)
(* SpecCaps: configurations with lower caps, other fallback brightness,    *)
(* and FORCE_MAX_BRIGHTNESS set by the build                               *)
(***************************************************************************)
CapsConfigs ==
  { [DefaultConfig EXCEPT !.BRIGHTNESS_CAP = bc, !.MOTION_SPEED_CAP = sc,
                          !.FALLBACK_BRIGHTNESS = fb, !.FORCE_MAX_BRIGHTNESS = fm] :
      bc \in {255, 100}, sc \in {255, 40}, fb \in {255, 60}, fm \in {0, 1} }

CapsPackets ==
  { MkPacket(m, 200, 100, 50, br, 90, sp, 200, 5) :
      m \in {2, 4}, br \in {0, 90, 180}, sp \in {30, 50} }

CapsUpdate ==
  \E p \in CapsPackets, t \in {ULong(0, 0)} :
    updateStateFromPacket(p, t) /\ ObserveUpdate(p, t, "no", FALSE) /\ Bounded'

CapsAdvance ==
  \E dt \in {20}, i \in {40} :
    advanceRenderPhase(dt, i) /\ ObserveAdvance(dt, i, "no", FALSE) /\ Bounded'

CapsRender == renderFrame /\ ObserveRender("no", FALSE)

InitCaps == \E c \in CapsConfigs : InitWith(c, ZeroPacket)

NextCaps == CapsUpdate \/ CapsAdvance \/ CapsRender

SpecCaps == InitCaps /\ [][NextCaps]_vars

\* C18: for any configured BRIGHTNESS_CAP, MOTION_SPEED_CAP and fallback
\* brightness, after initState and after every update (those that keep the
\* previous brightness on a zero hint included), targetState.brightness is
\* at most BRIGHTNESS_CAP and targetState.motion_speed is at most
\* MOTION_SPEED_CAP.
C18_CapsHold ==
  /\ targetState.brightness <= cfg.BRIGHTNESS_CAP
  /\ targetState.motion_speed <= cfg.MOTION_SPEED_CAP

(***************************************************************************)
(* SpecNet: datagrams, well formed and damaged in each way, polled by the  *)
(* control loop                                                            *)
(***************************************************************************)
NetPayloads == { <<2, 200, 100, 50, 180, 90, 50, 200, 1>>,
                 <<5, 0, 85, 170, 0, 7, 255, 0, 254>> }

RECURSIVE XorAll(_)
XorAll(bytes) == IF bytes = <<>> THEN 0 ELSE BitXor(Head(bytes), XorAll(Tail(bytes)))

\* the checksum byte of a sender: right, with one bit flipped, or taken
\* over the first eight payload bytes only
SentChecksum(payload, kind) ==
  CASE kind = "right"   -> XorAll(payload)
    [] kind = "flipped" -> BitXor(XorAll(payload), 1)
    [] kind = "short"   -> XorAll(SubSeq(payload, 1, 8))

\* a 12-byte frame around a payload
Frame(header, payload, kind, footer) ==
  <<header>> \o payload \o <<SentChecksum(payload, kind), footer>>

NetFrames ==
  { Frame(h, p, k, f) :
      h \in {170, 85}, p \in NetPayloads, k \in {"right", "flipped", "short"},
      f \in {85, 170} }

\* the frames, and each of them one byte short and one byte long; and no
\* datagram at all
NetDatagrams ==
  NetFrames \cup { SubSeq(d, 1, 11) : d \in NetFrames }
            \cup { d \o <<85>> : d \in NetFrames } \cup { <<>> }

\* what the caller's Packet may hold before the first call
NetInitialPackets == { ZeroPacket, MkPacket(9, 9, 9, 9, 9, 9, 9, 9, 9) }

NetReceive ==
  \E d \in NetDatagrams : receivePacket(d) /\ ObserveReceive(d, "no", FALSE)

NetDeliver ==
  \E t \in {ULong(0, 0), ULong(0, 43)} :
    loopDeliver(t) /\ ObserveUpdate(rxPacket, t, "no", FALSE) /\ Bounded'

NetRender == renderFrame /\ ObserveRender("no", FALSE)

InitNet == \E p \in NetInitialPackets : InitWith(DefaultConfig, p)

NextNet == NetReceive \/ NetDeliver \/ NetRender

SpecNet == InitNet /\ [][NextNet]_vars

\* exactly 12 bytes, 0xAA first, 0x55 last, byte 10 the XOR of bytes 1..9
\* (bytes counted from 0, the sequence from 1)
WellFormed(d) ==
  /\ Len(d) = 12
  /\ d[1] = 170
  /\ d[12] = 85
  /\ d[11] = XorAll(SubSeq(d, 2, 10))

\* the Packet whose fields mode..frame_id are bytes 1..9
FieldsOf(d) ==
  [ mode |-> d[2], r |-> d[3], g |-> d[4], b |-> d[5], brightness |-> d[6],
    motion_energy |-> d[7], motion_speed |-> d[8], motion_direction |-> d[9],
    frame_id |-> d[10] ]

\* C9: receivePacket returns true if and only if the datagram is well formed;
\* it then stores bytes 1..9 in the fields mode..frame_id of the caller's
\* Packet, and on every rejection it leaves that Packet as it was; so every
\* packet that reaches updateStateFromPacket is the content of a well-formed
\* datagram.
C9_TransportValidation ==
  [][ /\ obs'.op = "receive"
           => /\ rxReturn' <=> WellFormed(obs'.datagram)
              /\ rxReturn' => rxPacket' = FieldsOf(obs'.datagram)
              /\ ~rxReturn' => rxPacket' = rxPacket
      /\ obs'.op = "update"
           => /\ obs.op = "receive"
              /\ WellFormed(obs.datagram)
              /\ obs'.packet = FieldsOf(obs.datagram) ]_vars

\* a damaged datagram was turned away after a good one had been delivered:
\* the caller's Packet still holds the good one
C9_Witness ==
  /\ obs.op = "receive" /\ ~rxReturn
  /\ Len(obs.datagram) = 12 /\ obs.datagram[1] = 170 /\ obs.datagram[12] = 85
  /\ haveFrame
  /\ rxPacket = MkPacket(2, 200, 100, 50, 180, 90, 50, 200, 1)
  /\ FieldsOf(obs.datagram) /= rxPacket

=============================================================================
